---- MODULE Spec2Model ----
(***************************************************************************)
(* GridWorldEnv of RL_Agent/env.py: grid-mode world generation             *)
(* (initialize_grid_environment), the discrete step / reward / done state  *)
(* machine (step), reset, the observation (get_observation), the          *)
(* obstacle-proximity measure (calculate_obstacle_proximity), and the      *)
(* coupling to the simulator: continuous generation of the scene           *)
(* (initialize_environment, initialize_coppelia_environment), the control  *)
(* points of the path, and the calls of sim.* that can raise in step and   *)
(* reset.  Each call of the simulator either returns or raises.            *)
(*                                                                         *)
(* Rewards and proximities are decimal numbers with at most two places in  *)
(* the source (1.0, -20.0, 0.1, -0.05, 0.2*d, 0.3*p, ...); they are kept   *)
(* here as integers counting hundredths, so 1.0 is 100 and -0.05 is -5.    *)
(* self.redspots is a Python list that the code only ever tests for        *)
(* membership and length and keeps free of duplicates; it is a set here.   *)
(***************************************************************************)
EXTENDS Integers, FiniteSets, Sequences, TLC

VARIABLES
    pc,                \* position of the constructor / environment: which loop of
                       \* initialize_grid_environment runs, or "ready"
    grid_dimensions,   \* self.grid_dimensions  <<width, height>>
    max_steps,         \* self.max_steps
    num_obstacles,     \* local num_obstacles of initialize_grid_environment
    redspots,          \* self.redspots; while the scene is generated, the local
                       \* redspots that line 207 assigns to it
    goal,              \* self.goal
    init_loc,          \* self.init_loc
    x,                 \* self.x
    y,                 \* self.y
    current_location,  \* self.current_location
    total_steps,       \* self.total_steps
    ret,               \* what the last call of step / reset returned, with its inputs;
                       \* ret.obs names the expression returned as the observation,
                       \* whose value ReturnedObservation computes
    episode_done,      \* history: a step since the last reset returned done = True
    undone_run,        \* history: consecutive steps since the last reset that all
                       \* returned done = False
    path_free,         \* history: every step since the last reset started off the
                       \* goal and ended off the obstacles
    use_coppeliasim,   \* self.use_coppeliasim
    simulation_mode,   \* self.simulation_mode: True is grid-only mode
    ctrlPts,           \* self.ctrlPts, each point its <<x, y>>; <<>> while unset
    gen,               \* locals of initialize_environment while it runs; under a
                       \* fair random source, the parity of the draws made
    random_seed,       \* the random_seed argument of the constructor
    stream42,          \* what random yields after random.seed(42), as far as the
                       \* program has consumed it
    samples,           \* the values random.uniform yields for each kind of object,
                       \* and how floating-point rounding compares equal bounds
    follow,            \* follow_path while it runs: self.initial_z, self.posAlongPath,
                       \* self.previousSimulationTime and its locals; between two
                       \* runs, self.posAlongPath as it was left
    calls              \* history: calls of step and reset on an environment
                       \* constructed with use_coppeliasim = True

vars == <<pc, grid_dimensions, max_steps, num_obstacles, redspots, goal, init_loc,
          x, y, current_location, total_steps, ret, episode_done, undone_run,
          path_free, use_coppeliasim, simulation_mode, ctrlPts, gen, random_seed,
          stream42, samples, follow, calls>>

\* the state of the simulator coupling
coppelia == <<use_coppeliasim, simulation_mode, ctrlPts, gen, random_seed, stream42,
              samples, follow>>

----------------------------------------------------------------------------
(* Bounds of the model                                                     *)

Width == 3
Height == 2
MaxSteps == 2
MinObstacles == 1
MaxObstacles == 1
ProxWidth == 8
ProxHeight == 3
ProxMaxObstacles == 2
ObsWidth == 5
ObsHeight == 2
ObsMaxObstacles == 1

\* stands for the 100 attempts each placement loop of initialize_environment makes
AttemptBudget == 2

\* the most obstacles initialize_environment is asked to place (line 812 draws
\* between 20 and 50)
SceneMaxObstacles == 2

\* the subdivisions of calculate_total_length (1000 in the source) and the most
\* control points of a curve that is evaluated
Subdivisions == 4
MaxCtrlPts == 3

\* follow_path: the longest curve, in thousandths of a scene unit; the latest
\* reading of the simulation clock and the most it moves between two readings, in
\* steps of 50 ms; the longest time one turn of the loop takes beyond its sleep,
\* in hundredths of a second
MaxLength == 9
MaxSimTime == 3
MaxDelta == 2
MaxLag == 1

\* the grids generated under a fair random source, and the most obstacles
\* random.randint(20, 50) of line 158 asks for on them
GenWidth == 2
GenHeight == 2
GenMaxObstacles == 3

\* how far outside the scene the positions given to move_to_grid lie, in
\* spacings of the floating-point numbers, and how far outside the grid the cells
\* given to grid_to_coordinates
BeyondScene == 4
BeyondGrid == 1

\* calls of step and reset followed on an environment coupled to the simulator
MaxCalls == 3

----------------------------------------------------------------------------
(* Program constants                                                       *)

UP == 0
DOWN == 1
LEFT == 2
RIGHT == 3
STAY == 4

\* hundredths
GoalReward == 100
ObstacleReward == -2000
CloserReward == 10
FartherReward == -10
NoProgressReward == -5
WallPenalty == 20
ProximityWeight == 30
ProximityFull == 100
ProximityPerCell == 20
ProximityRadius == 4
VisionRadius == 2
ObservationSize == 29
FallbackReward == -10
FallbackDistance == 999

Actions == {UP, DOWN, LEFT, RIGHT, STAY}

\* what a caller may pass to step: the five actions and an integer outside them
ActionInputs == Actions \cup {STAY + 1}

\* the mapping with the names of LEFT and RIGHT exchanged
ACTION_NAMES_swapped(action) ==
    CASE action = UP -> "UP"
      [] action = DOWN -> "DOWN"
      [] action = LEFT -> "RIGHT"
      [] action = RIGHT -> "LEFT"
      [] action = STAY -> "STAY"
      [] OTHER -> "UNKNOWN"

\* lines 19-25, and the default of ACTION_NAMES.get at line 612
ACTION_NAMES(action) ==
    CASE action = UP -> "UP"
      [] action = DOWN -> "DOWN"
      [] action = LEFT -> "LEFT"
      [] action = RIGHT -> "RIGHT"
      [] action = STAY -> "STAY"
      [] OTHER -> "UNKNOWN"

NoCell == <<-1, -1>>

Max(a, b) == IF a >= b THEN a ELSE b
Min(a, b) == IF a <= b THEN a ELSE b
Abs(a) == IF a >= 0 THEN a ELSE -a

Cells(dims) == (0 .. dims[1] - 1) \X (0 .. dims[2] - 1)

Manhattan(p, q) == Abs(p[1] - q[1]) + Abs(p[2] - q[2])

----------------------------------------------------------------------------
(* initialize_grid_environment: three rejection-sampling loops.  One       *)
(* action is one iteration of a loop, its random draw an input.            *)

\* line 165: a drawn cell becomes an obstacle unless it already is one
ObstacleAccepted(cell, spots) == cell \notin spots

\* line 172: a drawn cell becomes the goal unless it is an obstacle
GoalAccepted_any(cell, spots) == TRUE

GoalAccepted(cell, spots) == cell \notin spots

\* line 180: a drawn cell becomes the agent start unless it is an obstacle or the goal
AgentAccepted(cell, spots, g) == cell \notin spots /\ cell # g

\* lines 162-166: one iteration of the obstacle loop, which drew cell
GenObstacleDraw(cell) ==
    /\ pc = "obstacles"
    /\ Cardinality(redspots) < num_obstacles
    /\ cell \in Cells(grid_dimensions)
    /\ LET spots == IF ObstacleAccepted(cell, redspots)
                      THEN redspots \cup {cell} ELSE redspots
       IN /\ redspots' = spots
          /\ pc' = IF Cardinality(spots) < num_obstacles THEN "obstacles" ELSE "goal"
    /\ UNCHANGED <<grid_dimensions, max_steps, num_obstacles, goal, init_loc, x, y,
                   current_location, total_steps, ret, episode_done, undone_run,
                   path_free, calls>>

\* lines 169-174: one iteration of the goal loop, which drew cell
GenGoalDraw(cell) ==
    /\ pc = "goal"
    /\ cell \in Cells(grid_dimensions)
    /\ IF GoalAccepted(cell, redspots)
         THEN goal' = cell /\ pc' = "agent"
         ELSE UNCHANGED <<goal, pc>>
    /\ UNCHANGED <<grid_dimensions, max_steps, num_obstacles, redspots, init_loc, x, y,
                   current_location, total_steps, ret, episode_done, undone_run,
                   path_free, calls>>

\* lines 177-185: one iteration of the agent loop, which drew cell
GenAgentDraw(cell) ==
    /\ pc = "agent"
    /\ cell \in Cells(grid_dimensions)
    /\ IF AgentAccepted(cell, redspots, goal)
         THEN /\ x' = cell[1]
              /\ y' = cell[2]
              /\ init_loc' = cell
              /\ current_location' = cell
              /\ pc' = "ready"
         ELSE UNCHANGED <<x, y, init_loc, current_location, pc>>
    /\ UNCHANGED <<grid_dimensions, max_steps, num_obstacles, redspots, goal,
                   total_steps, ret, episode_done, undone_run, path_free, calls>>

GenObstacle ==
    /\ \E cell \in Cells(grid_dimensions) : GenObstacleDraw(cell)
    /\ UNCHANGED coppelia

GenGoal ==
    /\ \E cell \in Cells(grid_dimensions) : GenGoalDraw(cell)
    /\ UNCHANGED coppelia

GenAgent ==
    /\ \E cell \in Cells(grid_dimensions) : GenAgentDraw(cell)
    /\ UNCHANGED coppelia

----------------------------------------------------------------------------
(* calculate_obstacle_proximity                                            *)

\* lines 442-456: the offsets <<dx, dy>> of the square window at which the loops find
\* an obstacle: the cell is inside the grid and in redspots
ObstaclesInWindow(loc, dims, spots, radius) ==
    { <<o[1] - loc[1], o[2] - loc[2]>> :
        o \in { c \in spots :
                  /\ c[1] - loc[1] \in -radius .. radius
                  /\ c[2] - loc[2] \in -radius .. radius
                  /\ ~ ( c[1] < 0 \/ c[1] >= dims[1] \/ c[2] < 0 \/ c[2] >= dims[2] ) } }

\* lines 439-465: the least |dx| + |dy| over them, turned into a proximity
ProximityOfWindow(loc, dims, spots, radius) ==
    LET distances == { Abs(d[1]) + Abs(d[2]) :
                         d \in ObstaclesInWindow(loc, dims, spots, radius) }
    IN IF distances = {}
         THEN 0
         ELSE LET min_distance == CHOOSE m \in distances : \A e \in distances : m <= e
              IN Max(0, ProximityFull - min_distance * ProximityPerCell)

calculate_obstacle_proximity_short(loc, dims, spots) ==
    ProximityOfWindow(loc, dims, spots, ProximityRadius - 1)

\* the proximity with the agent's own cell left out of the scan
calculate_obstacle_proximity_excluding_own(loc, dims, spots) ==
    ProximityOfWindow(loc, dims, spots \ {loc}, ProximityRadius)

calculate_obstacle_proximity(loc, dims, spots) ==
    ProximityOfWindow(loc, dims, spots, ProximityRadius)

----------------------------------------------------------------------------
(* get_observation                                                         *)

\* lines 411-416: the label of a cell
CellColor(cell, spots, g) ==
    IF cell \in spots THEN 1 ELSE IF cell = g THEN 2 ELSE 0

\* lines 408-409: the cell the window offset <<dx, dy>> looks at
WindowCell(loc, dims, dx, dy) ==
    << Max(0, Min(dims[1] - 1, loc[1] + dx)), Max(0, Min(dims[2] - 1, loc[2] + dy)) >>

\* lines 406-407: the offsets in the order the two loops visit them, dy outer
WindowOffsets ==
    LET side == 2 * VisionRadius + 1
    IN [ i \in 1 .. side * side |->
           << ((i - 1) % side) - VisionRadius, ((i - 1) \div side) - VisionRadius >> ]

\* the window without the cells outside the grid
get_observation_cropped(loc, dims, spots, g) ==
    LET inside == SelectSeq(WindowOffsets,
                            LAMBDA d : /\ loc[1] + d[1] \in 0 .. dims[1] - 1
                                       /\ loc[2] + d[2] \in 0 .. dims[2] - 1)
    IN [ i \in 1 .. Len(inside) |->
           CellColor(<<loc[1] + inside[i][1], loc[2] + inside[i][2]>>, spots, g) ]
       \o << loc[1], loc[2], g[1], g[2] >>

\* the window read column by column
get_observation_transposed(loc, dims, spots, g) ==
    [ i \in 1 .. Len(WindowOffsets) |->
        CellColor(WindowCell(loc, dims, WindowOffsets[i][2], WindowOffsets[i][1]),
                  spots, g) ]
    \o << loc[1], loc[2], g[1], g[2] >>

\* lines 401-430
get_observation(loc, dims, spots, g) ==
    [ i \in 1 .. Len(WindowOffsets) |->
        CellColor(WindowCell(loc, dims, WindowOffsets[i][1], WindowOffsets[i][2]),
                  spots, g) ]
    \o << loc[1], loc[2], g[1], g[2] >>

\* the size the observation had before the goal coordinates were added to it
ZeroObservation_short == [ i \in 1 .. ObservationSize - 4 |-> 0 ]

\* lines 623 and 709: np.zeros(29)
ZeroObservation == [ i \in 1 .. ObservationSize |-> 0 ]

\* lines 606, 623 and 702: the observation the last call returned.  step and reset
\* return get_observation() of the state they leave, which no variable it reads
\* changes before the next call; the fallback of step returns zeros
ReturnedObservation ==
    IF ret.obs = "zeros"
      THEN ZeroObservation
      ELSE get_observation(<<x, y>>, grid_dimensions, redspots, goal)

----------------------------------------------------------------------------
(* step                                                                    *)

\* lines 489-501: the position after the action, clamped to the grid
MoveX_unclamped(action, px, dims) ==
    CASE action = LEFT -> px - 1
      [] action = RIGHT -> px + 1
      [] OTHER -> px

MoveX(action, px, dims) ==
    CASE action = LEFT -> Max(0, px - 1)
      [] action = RIGHT -> Min(dims[1] - 1, px + 1)
      [] OTHER -> px

MoveY(action, py, dims) ==
    CASE action = UP -> Max(0, py - 1)
      [] action = DOWN -> Min(dims[2] - 1, py + 1)
      [] OTHER -> py

\* lines 598-601: the condition under which the wall penalty is subtracted
WallCondition(action, nx, ny, dims) ==
    \/ action = UP /\ ny = 0
    \/ action = DOWN /\ ny = dims[2] - 1
    \/ action = LEFT /\ nx = 0
    \/ action = RIGHT /\ nx = dims[1] - 1

\* lines 585-590
DistanceReward_swapped(old_manhattan, new_manhattan) ==
    IF new_manhattan > old_manhattan THEN CloserReward
    ELSE IF new_manhattan < old_manhattan THEN FartherReward
    ELSE NoProgressReward

DistanceReward(old_manhattan, new_manhattan) ==
    IF new_manhattan < old_manhattan THEN CloserReward
    ELSE IF new_manhattan > old_manhattan THEN FartherReward
    ELSE NoProgressReward

\* line 573
GoalReached_old(old_position, new_position, g) == old_position = g

GoalReached(old_position, new_position, g) == new_position = g

\* line 578
ObstacleHit_never(new_position, spots) == FALSE

ObstacleHit(new_position, spots) == new_position \in spots

\* lines 569-602: <<reward, done>> before the time limit is applied
Score(action, old_position, new_position, g, spots, dims, obstacle_proximity) ==
    IF GoalReached(old_position, new_position, g)
      THEN <<GoalReward, TRUE>>
    ELSE IF ObstacleHit(new_position, spots)
      THEN <<ObstacleReward, TRUE>>
    ELSE <<DistanceReward(Manhattan(old_position, g), Manhattan(new_position, g))
             - (obstacle_proximity * ProximityWeight) \div 100
             - (IF WallCondition(action, new_position[1], new_position[2], dims)
                  THEN WallPenalty ELSE 0),
           FALSE>>

\* line 605
TimeLimitReached_late(steps, limit) == steps > limit

TimeLimitReached_early(steps, limit) == steps >= limit - 1

TimeLimitReached(steps, limit) == steps >= limit

\* caps the counter of calls
CountCall ==
    /\ calls < MaxCalls
    /\ calls' = IF use_coppeliasim THEN calls + 1 ELSE calls

\* step with the goal moved to the start cell
StepLayout_regoal ==
    /\ goal' = init_loc
    /\ UNCHANGED <<redspots, init_loc>>

\* lines 467-627: step reads self.goal and self.redspots (lines 481, 506, 573,
\* 578) and assigns neither them nor self.init_loc
StepLayout == UNCHANGED <<redspots, goal, init_loc>>

\* lines 478-506 and 565-617 of step: everything but the simulator block; actuation
\* records how that block went
StepDiscrete(action, actuation) ==
    /\ pc = "ready"
    /\ total_steps <= max_steps        \* caps the counter: one step past the limit
    /\ CountCall
    /\ LET old_position == current_location
           old_manhattan == Manhattan(old_position, goal)
           nx == MoveX(action, x, grid_dimensions)
           ny == MoveY(action, y, grid_dimensions)
           new_position == <<nx, ny>>
           new_manhattan == Manhattan(new_position, goal)
           obstacle_proximity ==
               calculate_obstacle_proximity(new_position, grid_dimensions, redspots)
           scored == Score(action, old_position, new_position, goal, redspots,
                           grid_dimensions, obstacle_proximity)
           done == scored[2] \/ TimeLimitReached(total_steps + 1, max_steps)
       IN /\ total_steps' = total_steps + 1
          /\ x' = nx
          /\ y' = ny
          /\ current_location' = new_position
          /\ ret' = [ op |-> "step",
                      action |-> action,
                      actuation |-> actuation,
                      old_position |-> old_position,
                      old_steps |-> total_steps,
                      after_done |-> episode_done,
                      obs |-> "get_observation",
                      reward |-> scored[1],
                      done |-> done,
                      info |-> [ manhattan_distance |-> new_manhattan,
                                 action_name |-> ACTION_NAMES(action),
                                 manhattan_improvement |-> old_manhattan - new_manhattan,
                                 obstacle_proximity |-> obstacle_proximity ] ]
          /\ episode_done' = (episode_done \/ done)
          /\ undone_run' = IF done THEN 0 ELSE undone_run + 1
          /\ path_free' = ( /\ path_free
                            /\ old_position # goal
                            /\ new_position \notin redspots )
    /\ StepLayout
    /\ UNCHANGED <<pc, grid_dimensions, max_steps, num_obstacles>>

\* the test of line 340 made on the other flag
FollowPathSkips_uncoupled == ~ use_coppeliasim

\* line 340: follow_path returns at once in grid-only mode
FollowPathSkips == simulation_mode

\* the test of line 509 without its second half
Active_coupled == use_coppeliasim

\* lines 509, 642, 744: the simulator block runs only while this holds
Active == use_coppeliasim /\ ~ simulation_mode

\* step in grid-only mode
Step(action) ==
    /\ ~ Active
    /\ StepDiscrete(action, "none")
    /\ UNCHANGED coppelia

StepAny == \E action \in ActionInputs : Step(action)

\* step called with an unhashable action, such as the list [LEFT]: it equals none of
\* the five actions, so nothing moves (lines 489-501); the step is scored, and
\* ACTION_NAMES.get (line 612) raises TypeError, which the handler of lines 619-627
\* turns into the fallback result
StepUnhashable ==
    /\ pc = "ready"
    /\ ~ Active
    /\ CountCall
    /\ total_steps <= max_steps
    /\ total_steps' = total_steps + 1
    /\ current_location' = <<x, y>>
    /\ ret' = [ op |-> "step_failed",
                old_position |-> current_location,
                old_steps |-> total_steps,
                after_done |-> episode_done,
                obs |-> "zeros",
                reward |-> FallbackReward,
                done |-> TRUE,
                info |-> [ manhattan_distance |-> FallbackDistance,
                           action_name |-> "ERROR",
                           manhattan_improvement |-> 0,
                           obstacle_proximity |-> 0 ] ]
    /\ episode_done' = TRUE
    /\ undone_run' = 0
    /\ path_free' = FALSE
    /\ UNCHANGED <<pc, grid_dimensions, max_steps, num_obstacles, redspots, goal,
                   init_loc, x, y, coppelia>>

----------------------------------------------------------------------------
(* reset                                                                   *)

\* lines 637-639: back to the start of an episode
ResetEpisode ==
    /\ CountCall
    /\ x' = init_loc[1]
    /\ y' = init_loc[2]
    /\ current_location' = init_loc
    /\ total_steps' = 0
    /\ episode_done' = FALSE
    /\ undone_run' = 0
    /\ path_free' = TRUE

\* lines 702-703; old_ctrlPts remembers how many control points the call found,
\* simulator whether it entered the simulator block of line 642
ResetResult ==
    [ op |-> "reset", obs |-> "get_observation", old_ctrlPts |-> Len(ctrlPts),
      simulator |-> Active ]

Reset ==
    /\ pc = "ready"
    /\ ~ Active
    /\ ResetEpisode
    /\ ret' = ResetResult
    /\ UNCHANGED <<pc, grid_dimensions, max_steps, num_obstacles, redspots, goal, init_loc,
                   coppelia>>

----------------------------------------------------------------------------
(* The continuous scene of the simulator.  Lengths are integers counting   *)
(* 0.0001 scene units: the grid pitch 0.125 is 1250, a drawn coordinate    *)
(* 1.02 is 10200.  Arithmetic is exact, where the source computes in       *)
(* binary floating point.                                                  *)

GridPitch == 1250
SceneHalf == 25000
SceneSize == 50000
MaxGridIndex == 40
ObstacleSize == 3000
GoalSize == 1250
RobotSize == 2000
PlacementMargin == 1000
RobotRange == 20000
Epsilon == 1
DefaultGoalCoord == 20000
DefaultRobotCoord == 0
DefaultAgentCell == 20
DefaultGoalCell == 35
CurveOffset == 200
ResetSeed == 42

\* the seeds a caller constructs the environment with: 42 and another one
Seeds == {ResetSeed, ResetSeed + 1}

\* line 43: the default grid, the one the converters of lines 256-283 assume
ContinuousGrid == <<MaxGridIndex, MaxGridIndex>>

NoPosition == <<-SceneSize, -SceneSize>>

DefaultGoalPosition == <<DefaultGoalCoord, DefaultGoalCoord>>

DefaultRobotPosition == <<DefaultRobotCoord, DefaultRobotCoord>>

\* lines 264-265: round(n / d) for n >= 0, the built-in round of Python, which
\* rounds a half to the even neighbour
RoundDiv(n, d) ==
    LET q == n \div d
        r == n % d
    IN IF 2 * r < d THEN q
       ELSE IF 2 * r > d THEN q + 1
       ELSE IF q % 2 = 0 THEN q ELSE q + 1

CeilDiv(n, d) == -((-n) \div d)

\* lines 256-270; None is NoCell
move_to_grid(p) ==
    LET sx == p[1] + SceneHalf
        sy == p[2] + SceneHalf
    IN IF sx > SceneSize \/ sx < 0 \/ sy > SceneSize \/ sy < 0
         THEN NoCell
         ELSE LET x_grid == RoundDiv(sx, GridPitch)
                  y_grid == RoundDiv(sy, GridPitch)
              IN IF x_grid > MaxGridIndex \/ x_grid < 0
                      \/ y_grid > MaxGridIndex \/ y_grid < 0
                   THEN NoCell
                   ELSE <<x_grid, y_grid>>

\* lines 272-283, without the constant height; None is NoPosition
grid_to_coordinates(cell) ==
    IF cell[1] > MaxGridIndex \/ cell[1] < 0 \/ cell[2] > MaxGridIndex \/ cell[2] < 0
      THEN NoPosition
      ELSE <<cell[1] * GridPitch - SceneHalf, cell[2] * GridPitch - SceneHalf>>

\* lines 972-987: the two corners is_position_valid uses
create_bounding_locations(p, size) ==
    [ top_right |-> <<p[1] + size \div 2, p[2] + size \div 2>>,
      bottom_left |-> <<p[1] - size \div 2, p[2] - size \div 2>> ]

\* the comparison < of lines 963-966.  The source compares sums of binary
\* floating-point numbers: where the exact values differ it agrees with exact
\* arithmetic, and where two boxes exactly touch (the exact values are equal)
\* rounding decides, for some pairs of boxes one way and for some the other;
\* samples.touching is the way it decides the pairs that occur
Less(a, b) == a < b \/ (a = b /\ samples.touching)

\* the overlap test with the boxes merely required to differ
is_position_valid_distinct(p, size, obstacle_positions, obstacle_size) ==
    p \notin obstacle_positions

\* lines 947-970
is_position_valid(p, size, obstacle_positions, obstacle_size) ==
    /\ ~ ( \/ p[1] + size \div 2 > SceneHalf
           \/ p[1] - size \div 2 < -SceneHalf
           \/ p[2] + size \div 2 > SceneHalf
           \/ p[2] - size \div 2 < -SceneHalf )
    /\ \A e \in obstacle_positions :
          LET new == create_bounding_locations(p, size)
              existing == create_bounding_locations(e, obstacle_size)
          IN \/ Less(new.top_right[1], existing.bottom_left[1])
             \/ Less(existing.top_right[1], new.bottom_left[1])
             \/ Less(new.top_right[2], existing.bottom_left[2])
             \/ Less(existing.top_right[2], new.bottom_left[2])

\* lines 989-1014: the grid points on or inside the box
get_all_grid_points_in_obstacle(p, size) ==
    LET x_start == CeilDiv(p[1] - size \div 2, GridPitch) * GridPitch
        x_end == ((p[1] + size \div 2) \div GridPitch) * GridPitch
        y_start == CeilDiv(p[2] - size \div 2, GridPitch) * GridPitch
        y_end == ((p[2] + size \div 2) \div GridPitch) * GridPitch
    IN { <<x_start + i * GridPitch, y_start + j * GridPitch>> :
           i \in 0 .. (x_end + Epsilon - x_start) \div GridPitch,
           j \in 0 .. (y_end + Epsilon - y_start) \div GridPitch }

\* lines 865-869: the cells an obstacle adds to redspots
ObstacleCells(p) ==
    { move_to_grid(point) : point \in get_all_grid_points_in_obstacle(p, ObstacleSize) }
        \ {NoCell}

\* what random.uniform, rounded to two places, can give for each kind of object
\* (lines 844-847, 881-884, 910-913): samples of its range
InRange(p, limit) ==
    /\ p[1] \in -limit .. limit /\ p[1] % 100 = 0
    /\ p[2] \in -limit .. limit /\ p[2] % 100 = 0

ObstacleRange(p) == InRange(p, SceneHalf - (ObstacleSize \div 2 + PlacementMargin))

GoalRange(p) == InRange(p, SceneHalf - (GoalSize \div 2 + PlacementMargin))

AgentRange(p) == InRange(p, RobotRange - RobotSize \div 2)

\* samples that bring about rejected draws, spent budgets, shared cells and, with
\* the obstacles at (0.1, 0) and (-0.2, 0), two boxes that exactly touch
ManySamples ==
    [ obstacle |-> { p \in { <<0, 0>>, <<1000, 0>>, <<-2000, 0>>, <<20000, 20000>> } :
                       ObstacleRange(p) },
      goal |-> { p \in { <<10000, 10000>>, <<19000, 19000>> } :
                   GoalRange(p) },
      agent |-> { p \in { <<10200, 9800>>, <<-10000, 5000>>, <<500, 0>> } :
                    AgentRange(p) },
      touching |-> FALSE ]

\* the fewest samples that still give different layouts
FewSamples ==
    [ obstacle |-> { p \in { <<0, 0>> } : ObstacleRange(p) },
      goal |-> { p \in { <<10000, 10000>> } : GoalRange(p) },
      agent |-> { p \in { <<10200, 9800>>, <<-10000, 5000>> } : AgentRange(p) },
      touching |-> FALSE ]

NoSamples == [ obstacle |-> {}, goal |-> {}, agent |-> {}, touching |-> FALSE ]

\* where the simulator may report the robot to be
SimPositions == { <<10200, 9800>> }

NoGen ==
    [ seed |-> 0, k |-> 0, i |-> 0, attempts |-> 0, obstacle_positions |-> {},
      goal_position |-> NoPosition, caller |-> "none" ]

\* no traversal is running, and self.posAlongPath has not been set
NoFollow == [ at |-> "idle" ]

\* no traversal is running, and self.posAlongPath is as the last one or
\* initialize_path_following left it: at "zero", at the "total_length" of the curve
\* it followed, or "partial", strictly between the two
Idle(posAlongPath) == [ at |-> "idle", posAlongPath |-> posAlongPath ]

PathProgress == {"zero", "partial", "total_length"}

NoStream == [ num_obstacles |-> 0, draws |-> << >> ]

\* use_coppeliasim = False: no simulator, and nothing of the coupling is ever set
GridOnly ==
    /\ use_coppeliasim = FALSE
    /\ simulation_mode = TRUE
    /\ ctrlPts = << >>
    /\ gen = NoGen
    /\ random_seed = ResetSeed
    /\ stream42 = NoStream
    /\ samples = NoSamples
    /\ follow = NoFollow
    /\ calls = 0

----------------------------------------------------------------------------
(* initialize_environment and initialize_coppelia_environment: one action  *)
(* is one iteration of a placement loop, its draw an input.  The draws     *)
(* made after random.seed(42) are remembered, so that generating again     *)
(* from that seed draws the same values.                                   *)

Replaying == gen.seed = ResetSeed /\ gen.k < Len(stream42.draws)

Draws(values) == IF Replaying THEN { stream42.draws[gen.k + 1] } ELSE values

Consume(p) ==
    stream42' = IF gen.seed = ResetSeed /\ ~ Replaying
                  THEN [stream42 EXCEPT !.draws = Append(@, p)]
                  ELSE stream42

\* the while loops of lines 843, 882 and 919 end on a valid draw or a spent budget
LoopOver(valid) == valid \/ gen.attempts + 1 >= AttemptBudget

\* lines 839-873
CObstacleDraw ==
    /\ pc = "c_obstacles"
    /\ \E p \in Draws(samples.obstacle) :
          LET valid == is_position_valid(p, ObstacleSize, gen.obstacle_positions,
                                         ObstacleSize)
              i == IF LoopOver(valid) THEN gen.i + 1 ELSE gen.i
          IN /\ Consume(p)
             /\ gen' = [gen EXCEPT !.k = @ + 1,
                                   !.i = i,
                                   !.attempts = IF LoopOver(valid) THEN 0 ELSE @ + 1,
                                   !.obstacle_positions =
                                        IF valid THEN @ \cup {p} ELSE @]
             /\ redspots' = IF valid THEN redspots \cup ObstacleCells(p) ELSE redspots
             /\ pc' = IF i = num_obstacles THEN "c_goal" ELSE "c_obstacles"
    /\ UNCHANGED <<grid_dimensions, max_steps, num_obstacles, goal, init_loc, x, y,
                   current_location, total_steps, ret, episode_done, undone_run,
                   path_free, use_coppeliasim, simulation_mode, ctrlPts, random_seed,
                   samples, follow, calls>>

\* lines 875-911
CGoalDraw ==
    /\ pc = "c_goal"
    /\ \E p \in Draws(samples.goal) :
          LET valid == is_position_valid(p, GoalSize, gen.obstacle_positions,
                                         ObstacleSize)
          IN /\ Consume(p)
             /\ gen' = [gen EXCEPT !.k = @ + 1,
                                   !.attempts = IF LoopOver(valid) THEN 0 ELSE @ + 1,
                                   !.goal_position =
                                        IF valid THEN p
                                        ELSE IF LoopOver(valid) THEN DefaultGoalPosition
                                        ELSE @]
             /\ pc' = IF LoopOver(valid) THEN "c_agent" ELSE "c_goal"
    /\ UNCHANGED <<grid_dimensions, max_steps, num_obstacles, redspots, goal, init_loc,
                   x, y, current_location, total_steps, ret, episode_done, undone_run,
                   path_free, use_coppeliasim, simulation_mode, ctrlPts, random_seed,
                   samples, follow, calls>>

\* lines 236-244: the control points initialize_path_following sets from the
\* position the simulator reports
initialize_path_following_empty(pos) == << >>

initialize_path_following(pos) == << pos >>

\* how initialize_robot and initialize_path_following can go: both return; the
\* simulator raises after ctrlPts was set (line 244); it raises before (lines 228,
\* 238, 239)
PathInitOutcomes == {"ok", "failed_after_path", "failed"}

\* lines 214-220, and 676-695 when reset is the caller
PathInit(outcome, pos) ==
    /\ simulation_mode' = (simulation_mode \/ outcome # "ok")
    /\ ctrlPts' = IF outcome = "failed" THEN ctrlPts ELSE initialize_path_following(pos)
    /\ follow' = IF outcome = "failed" THEN follow ELSE Idle("zero")

\* lines 190-220: the layout in grid cells, the agent on its start, and the robot
\* and the path initialised; lines 676-703 when reset is the caller
FinishGeneration(bubbleRob_position, outcome, pos) ==
    LET converted == move_to_grid(bubbleRob_position)
        agent_pos == IF converted = NoCell
                       THEN <<DefaultAgentCell, DefaultAgentCell>> ELSE converted
        goal_cell == move_to_grid(gen.goal_position)
        g == IF goal_cell = NoCell THEN <<DefaultGoalCell, DefaultGoalCell>> ELSE goal_cell
    IN /\ goal' = g
       /\ x' = agent_pos[1]
       /\ y' = agent_pos[2]
       /\ init_loc' = agent_pos
       /\ current_location' = agent_pos
       /\ PathInit(outcome, pos)
       /\ ret' = IF gen.caller = "reset"
                   THEN [ResetResult EXCEPT !.simulator = TRUE]
                   ELSE ret
       /\ gen' = NoGen
       /\ pc' = "ready"

\* lines 913-943, then the rest of initialize_coppelia_environment
CAgentDraw ==
    /\ pc = "c_agent"
    /\ \E p \in Draws(samples.agent) :
          LET valid == is_position_valid(p, RobotSize, gen.obstacle_positions,
                                         ObstacleSize)
          IN /\ Consume(p)
             /\ IF LoopOver(valid)
                  THEN \E placed \in BOOLEAN, outcome \in PathInitOutcomes,
                          pos \in SimPositions :
                          FinishGeneration(IF valid /\ placed
                                             THEN p ELSE DefaultRobotPosition,
                                           outcome, pos)
                  ELSE /\ gen' = [gen EXCEPT !.k = @ + 1, !.attempts = @ + 1]
                       /\ UNCHANGED <<goal, init_loc, x, y, current_location, ret, pc,
                                      simulation_mode, ctrlPts, follow>>
    /\ UNCHANGED <<grid_dimensions, max_steps, num_obstacles, redspots, total_steps,
                   episode_done, undone_run, path_free, use_coppeliasim, random_seed,
                   samples, calls>>

----------------------------------------------------------------------------
(* step and reset while the simulator is coupled                           *)

\* lines 485-501: the offset that bends the path
OffsetX(action) ==
    CASE action = UP -> CurveOffset
      [] action = DOWN -> -CurveOffset
      [] OTHER -> 0

OffsetY(action) ==
    CASE action = LEFT -> CurveOffset
      [] action = RIGHT -> -CurveOffset
      [] OTHER -> 0

\* the control points left as they are
KeepLastTwo_all(pts) == pts

\* lines 556-558
KeepLastTwo(pts) == IF Len(pts) > 2 THEN << pts[Len(pts) - 1], pts[Len(pts)] >> ELSE pts

\* lines 518-532: the control points flattened into the curve that createPath and
\* follow_path are given
ExtendedPath(pts, cell, action) ==
    LET new_coords == grid_to_coordinates(cell)
    IN IF new_coords = NoPosition
         THEN pts
         ELSE Append(pts, <<new_coords[1] + OffsetX(action),
                            new_coords[2] + OffsetY(action)>>)

\* lines 518-560: the control points after the block ran past line 514
AppendControlPoint(pts, cell, action) ==
    IF grid_to_coordinates(cell) = NoPosition
      THEN pts
      ELSE KeepLastTwo(ExtendedPath(pts, cell, action))

\* how the simulator block of step can go: getSimulationState or startSimulation
\* raises (handler of line 561); createPath or follow_path raises (handler of line
\* 552); the path is traversed
StepOutcomes == {"state_failed", "path_failed", "traversed"}

\* a failure of the simulator block that is left to the handler of line 619
StepSim_abort(action, outcome) ==
    IF outcome = "traversed"
      THEN /\ Active
           /\ StepDiscrete(action, outcome)
           /\ ctrlPts' = AppendControlPoint(ctrlPts,
                                            <<MoveX(action, x, grid_dimensions),
                                              MoveY(action, y, grid_dimensions)>>,
                                            action)
           /\ UNCHANGED <<use_coppeliasim, simulation_mode, gen, random_seed, stream42,
                          samples, follow>>
      ELSE /\ Active
           /\ pc = "ready"
           /\ total_steps <= max_steps
           /\ CountCall
           /\ total_steps' = total_steps + 1
           /\ x' = MoveX(action, x, grid_dimensions)
           /\ y' = MoveY(action, y, grid_dimensions)
           /\ current_location' = <<x', y'>>
           /\ ret' = [ op |-> "step",
                       action |-> action,
                       actuation |-> outcome,
                       old_position |-> current_location,
                       old_steps |-> total_steps,
                       after_done |-> episode_done,
                       obs |-> "zeros",
                       reward |-> FallbackReward,
                       done |-> TRUE,
                       info |-> [ manhattan_distance |-> FallbackDistance,
                                  action_name |-> "ERROR",
                                  manhattan_improvement |-> 0,
                                  obstacle_proximity |-> 0 ] ]
           /\ episode_done' = TRUE
           /\ undone_run' = 0
           /\ path_free' = FALSE
           /\ UNCHANGED <<pc, grid_dimensions, max_steps, num_obstacles, redspots, goal,
                          init_loc, coppelia>>

\* self.posAlongPath after the simulator block of step: follow_path (line 545)
\* sets it to 0 and moves it on, up to the length of the curve, until it returns
\* (lines 344-372) or a call of the simulator raises; it is not reached when
\* getSimulationState, startSimulation or createPath raises
AfterFollowPath(outcome, before) ==
    CASE outcome = "traversed" -> { Idle(progress) : progress \in PathProgress }
      [] outcome = "path_failed" -> {before, Idle("zero"), Idle("partial")}
      [] OTHER -> {before}

\* step, lines 467-617, with the simulator block of lines 509-563 entered
StepSim(action, outcome) ==
    /\ Active
    /\ StepDiscrete(action, outcome)
    /\ simulation_mode' = (outcome = "state_failed")
    /\ ctrlPts' = IF outcome = "state_failed"
                    THEN ctrlPts
                    ELSE AppendControlPoint(ctrlPts,
                                            <<MoveX(action, x, grid_dimensions),
                                              MoveY(action, y, grid_dimensions)>>,
                                            action)
    /\ follow' \in AfterFollowPath(outcome, follow)
    /\ UNCHANGED <<use_coppeliasim, gen, random_seed, stream42, samples>>

StepSimAny == \E action \in ActionInputs, outcome \in StepOutcomes : StepSim(action, outcome)

\* reset, lines 629-709, when no restart is needed (lines 681-688) or the restart
\* fails before it regenerates (lines 664-667, 678-680): the layout stays, and
\* initialize_path_following of line 691 runs unless setObjectPosition raised
ResetSimKeep(outcome, pos) ==
    /\ pc = "ready"
    /\ Active
    /\ ResetEpisode
    /\ PathInit(outcome, pos)
    /\ ret' = ResetResult
    /\ UNCHANGED <<pc, grid_dimensions, max_steps, num_obstacles, redspots, goal, init_loc,
                   use_coppeliasim, gen, random_seed, stream42, samples>>

ResetSimKeepAny ==
    \E outcome \in PathInitOutcomes, pos \in SimPositions : ResetSimKeep(outcome, pos)

\* reset when the restart is needed and regenerates the layout with
\* initialize_coppelia_environment(random_seed=42), line 673: the generator runs
\* again (lines 811-837) and FinishGeneration completes the reset
ResetSimRestart ==
    /\ pc = "ready"
    /\ Active
    /\ ResetEpisode
    /\ \E n \in IF stream42.num_obstacles # 0
                  THEN {stream42.num_obstacles} ELSE 1 .. SceneMaxObstacles :
          /\ num_obstacles' = n
          /\ stream42' = [stream42 EXCEPT !.num_obstacles = n]
    /\ \E started \in BOOLEAN : simulation_mode' = ~ started
    /\ redspots' = {}
    /\ gen' = [NoGen EXCEPT !.seed = ResetSeed,
                            !.caller = "reset"]
    /\ pc' = "c_obstacles"
    /\ UNCHANGED <<grid_dimensions, max_steps, goal, init_loc, ret, use_coppeliasim,
                   ctrlPts, random_seed, samples, follow>>

\* the constructor with use_coppeliasim = True and the simulator connected, at the
\* call of initialize_environment (lines 88-89, 811-837)
InitCoupled(values) ==
    /\ samples = values
    /\ follow = NoFollow
    /\ calls = 0
    /\ grid_dimensions = ContinuousGrid
    /\ max_steps = MaxSteps
    /\ random_seed \in Seeds
    /\ num_obstacles \in 1 .. SceneMaxObstacles
    /\ stream42 = IF random_seed = ResetSeed
                    THEN [NoStream EXCEPT !.num_obstacles = num_obstacles]
                    ELSE NoStream
    /\ use_coppeliasim = TRUE
    /\ simulation_mode \in BOOLEAN
    /\ ctrlPts = << >>
    /\ gen = [NoGen EXCEPT !.seed = random_seed, !.caller = "init"]
    /\ redspots = {}
    /\ pc = "c_obstacles"
    /\ goal = NoCell
    /\ init_loc = NoCell
    /\ x = -1
    /\ y = -1
    /\ current_location = NoCell
    /\ total_steps = 0
    /\ ret = [ op |-> "none" ]
    /\ episode_done = FALSE
    /\ undone_run = 0
    /\ path_free = TRUE

InitSim == InitCoupled(FewSamples)

NextSim ==
    \/ CObstacleDraw \/ CGoalDraw \/ CAgentDraw
    \/ StepAny \/ StepSimAny
    \/ Reset \/ ResetSimKeepAny \/ ResetSimRestart

SpecSim == InitSim /\ [][NextSim]_vars

\* close, lines 742-754: in coupled mode the scene is cleared and the simulation
\* stopped, an exception of the simulator being caught (line 753); no attribute of
\* the environment is assigned, and nothing keeps a caller from going on with step
\* or reset
Close ==
    /\ pc = "ready"
    /\ CountCall
    /\ ret' = [ op |-> "close", simulator |-> Active ]
    /\ UNCHANGED <<pc, grid_dimensions, max_steps, num_obstacles, redspots, goal, init_loc,
                   x, y, current_location, total_steps, episode_done, undone_run,
                   path_free, coppelia>>

\* the coupled environment, stepped, reset and closed
NextClose == NextSim \/ Close

SpecClose == InitSim /\ [][NextClose]_vars

\* the generator on its own, with more samples
InitGen == \E touching \in BOOLEAN :
              InitCoupled([ManySamples EXCEPT !.touching = touching])

NextGen == CObstacleDraw \/ CGoalDraw \/ CAgentDraw

SpecGen == InitGen /\ [][NextGen]_vars

----------------------------------------------------------------------------
(* The environment: constructed in grid-only mode, then stepped and reset  *)

Init ==
    /\ grid_dimensions = <<Width, Height>>
    /\ max_steps = MaxSteps
    /\ num_obstacles \in MinObstacles .. MaxObstacles
    /\ redspots = {}
    /\ pc = "obstacles"
    /\ goal = NoCell
    /\ init_loc = NoCell
    /\ x = -1
    /\ y = -1
    /\ current_location = NoCell
    /\ total_steps = 0
    /\ ret = [ op |-> "none" ]
    /\ episode_done = FALSE
    /\ undone_run = 0
    /\ path_free = TRUE
    /\ GridOnly

Next == GenObstacle \/ GenGoal \/ GenAgent \/ StepAny \/ Reset

Spec == Init /\ [][Next]_vars

----------------------------------------------------------------------------
(* episodes on the layout of the reach-the-goal scenario: a 5x5 grid with  *)
(* one obstacle at (2,2), the goal at (4,4) and the agent starting at      *)
(* (0,0), with a step limit equal to the length of the shortest paths      *)

ScenarioMaxSteps == 8

ScenarioGrid == <<5, 5>>

ScenarioObstacles == { <<2, 2>> }

ScenarioGoal == <<4, 4>>

ScenarioStart == <<0, 0>>

InitScenario ==
    /\ grid_dimensions = ScenarioGrid
    /\ max_steps = ScenarioMaxSteps
    /\ num_obstacles = Cardinality(ScenarioObstacles)
    /\ redspots = ScenarioObstacles
    /\ goal = ScenarioGoal
    /\ init_loc = ScenarioStart
    /\ x = ScenarioStart[1]
    /\ y = ScenarioStart[2]
    /\ current_location = ScenarioStart
    /\ total_steps = 0
    /\ pc = "ready"
    /\ ret = [ op |-> "none" ]
    /\ episode_done = FALSE
    /\ undone_run = 0
    /\ path_free = TRUE
    /\ GridOnly

NextScenario == StepAny \/ Reset

SpecScenario == InitScenario /\ [][NextScenario]_vars

----------------------------------------------------------------------------
(* The environment in either mode, with follow_path called on its own      *)

\* follow_path, lines 337-392, called by the user of a constructed environment: in
\* grid-only mode it returns at once; otherwise it runs its loop until it returns
\* or a call of the simulator raises, which leaves self.posAlongPath as
\* AfterFollowPath says.  simulator records whether the simulator was called
FollowPath(outcome) ==
    /\ pc = "ready"
    /\ CountCall
    /\ IF FollowPathSkips
         THEN /\ ret' = [ op |-> "follow_path", simulator |-> FALSE ]
              /\ UNCHANGED follow
         ELSE /\ ret' = [ op |-> "follow_path", simulator |-> TRUE ]
              /\ follow' \in AfterFollowPath(outcome, follow) \ {follow}
    /\ UNCHANGED <<pc, grid_dimensions, max_steps, num_obstacles, redspots, goal, init_loc,
                   x, y, current_location, total_steps, episode_done, undone_run,
                   path_free, use_coppeliasim, simulation_mode, ctrlPts, gen,
                   random_seed, stream42, samples>>

FollowPathAny == \E outcome \in {"path_failed", "traversed"} : FollowPath(outcome)

\* constructed in grid-only mode with the layout of the scenario, or coupled
InitMode == InitScenario \/ InitSim

NextMode == NextClose \/ FollowPathAny

SpecMode == InitMode /\ [][NextMode]_vars

\* the same episodes with callers that also pass unhashable actions
NextErr == NextScenario \/ StepUnhashable

SpecErr == InitScenario /\ [][NextErr]_vars

----------------------------------------------------------------------------
(* calculate_obstacle_proximity on its own: every agent cell and every     *)
(* obstacle set of a grid wide enough to hold obstacles outside the window *)

RECURSIVE SetsUpTo(_, _)
SetsUpTo(k, cells) ==
    IF k = 0 THEN {{}}
    ELSE LET prev == SetsUpTo(k - 1, cells)
         IN prev \cup { s \cup {c} : s \in prev, c \in cells }

InitProx ==
    /\ grid_dimensions = <<ProxWidth, ProxHeight>>
    /\ max_steps = MaxSteps
    /\ num_obstacles = 0
    /\ redspots \in SetsUpTo(ProxMaxObstacles, Cells(<<ProxWidth, ProxHeight>>))
    /\ pc = "proximity"
    /\ goal = NoCell
    /\ init_loc = NoCell
    /\ current_location \in Cells(<<ProxWidth, ProxHeight>>)
    /\ x = current_location[1]
    /\ y = current_location[2]
    /\ total_steps = 0
    /\ ret = [ op |-> "none" ]
    /\ episode_done = FALSE
    /\ undone_run = 0
    /\ path_free = TRUE
    /\ GridOnly

CalcProximity ==
    /\ pc = "proximity"
    /\ ret.op = "none"
    /\ ret' = [ op |-> "proximity",
                value |-> calculate_obstacle_proximity(current_location,
                                                       grid_dimensions, redspots) ]
    /\ UNCHANGED <<pc, grid_dimensions, max_steps, num_obstacles, redspots, goal,
                   init_loc, x, y, current_location, total_steps, episode_done,
                   undone_run, path_free, coppelia, calls>>

NextProx == CalcProximity

SpecProx == InitProx /\ [][NextProx]_vars

----------------------------------------------------------------------------
(* get_observation on its own: every agent cell, goal cell and obstacle    *)
(* set of a grid as wide as the window                                     *)

InitObs ==
    /\ grid_dimensions = <<ObsWidth, ObsHeight>>
    /\ max_steps = MaxSteps
    /\ num_obstacles = 0
    /\ redspots \in SetsUpTo(ObsMaxObstacles, Cells(<<ObsWidth, ObsHeight>>))
    /\ pc = "observation"
    /\ goal \in Cells(<<ObsWidth, ObsHeight>>)
    /\ init_loc = NoCell
    /\ current_location \in Cells(<<ObsWidth, ObsHeight>>)
    /\ x = current_location[1]
    /\ y = current_location[2]
    /\ total_steps = 0
    /\ ret = [ op |-> "none" ]
    /\ episode_done = FALSE
    /\ undone_run = 0
    /\ path_free = TRUE
    /\ GridOnly

Observe ==
    /\ pc = "observation"
    /\ ret.op = "none"
    /\ ret' = [ op |-> "observation",
                value |-> get_observation(<<x, y>>, grid_dimensions, redspots, goal) ]
    /\ UNCHANGED <<pc, grid_dimensions, max_steps, num_obstacles, redspots, goal,
                   init_loc, x, y, current_location, total_steps, episode_done,
                   undone_run, path_free, coppelia, calls>>

NextObs == Observe

SpecObs == InitObs /\ [][NextObs]_vars

----------------------------------------------------------------------------
(* bezier_recursive and calculate_total_length on their own.  The          *)
(* parameter t is k / subdivisions.  A point of the curve is kept exactly: *)
(* x and y are numerators over the common denominator "over", the sum of   *)
(* the weights, each weight multiplied by subdivisions^n.  The control     *)
(* points evaluated here have whole coordinates in scene units, as the     *)
(* points (0,0) and (1,0) have.                                            *)

\* scipy.special.comb, line 292
RECURSIVE comb(_, _)
comb(n, i) == IF i = 0 \/ i = n THEN 1 ELSE comb(n - 1, i - 1) + comb(n - 1, i)

\* the operator ** of line 293; 0 ** 0 is 1
RECURSIVE Power(_, _)
Power(b, e) == IF e = 0 THEN 1 ELSE b * Power(b, e - 1)

\* f[0] + ... + f[n]
RECURSIVE SumTo(_, _)
SumTo(f, n) == IF n < 0 THEN 0 ELSE f[n] + SumTo(f, n - 1)

\* line 293 at t = k / s, multiplied by s^n
Weight(n, i, k, s) == comb(n, i) * Power(s - k, n - i) * Power(k, i)

\* the curve evaluated with the weights of the control points in reverse order
bezier_recursive_reversed(pts, k, s, initial_z) ==
    LET n == Len(pts) - 1
        w == [ i \in 0 .. n |-> Weight(n, n - i, k, s) ]
        total_weight == SumTo(w, n)
    IN [ x |-> SumTo([ i \in 0 .. n |-> w[i] * pts[i + 1][1] ], n),
         y |-> SumTo([ i \in 0 .. n |-> w[i] * pts[i + 1][2] ], n),
         over |-> IF total_weight > 0 THEN total_weight ELSE 1,
         z |-> initial_z ]

\* lines 285-302
bezier_recursive(pts, k, s, initial_z) ==
    LET n == Len(pts) - 1
        w == [ i \in 0 .. n |-> Weight(n, i, k, s) ]
        total_weight == SumTo(w, n)
    IN [ x |-> SumTo([ i \in 0 .. n |-> w[i] * pts[i + 1][1] ], n),
         y |-> SumTo([ i \in 0 .. n |-> w[i] * pts[i + 1][2] ], n),
         over |-> IF total_weight > 0 THEN total_weight ELSE 1,
         z |-> initial_z ]

\* np.linalg.norm of line 312, rounded down to a whole numerator
Norm(dx, dy, dz) ==
    LET m == dx * dx + dy * dy + dz * dz
    IN CHOOSE r \in 0 .. Abs(dx) + Abs(dy) + Abs(dz) :
          r * r <= m /\ (r + 1) * (r + 1) > m

\* lines 304-314, with s subdivisions: the length as a numerator over "over"
calculate_total_length(pts, s, initial_z) ==
    LET point == [ k \in 0 .. s |-> bezier_recursive(pts, k, s, initial_z) ]
    IN [ length |-> SumTo([ k \in 0 .. s |->
                              IF k = 0 THEN 0
                              ELSE Norm(point[k].x - point[k - 1].x,
                                        point[k].y - point[k - 1].y,
                                        point[k].z - point[k - 1].z) ], s),
         over |-> point[0].over ]

BezierPoints == (0 .. 1) \X (0 .. 1)

\* self.initial_z, hundredths of a scene unit
InitialHeights == {5, 12}

SeqsUpTo(n, values) == UNION { [ 1 .. m -> values ] : m \in 1 .. n }

InitBezier ==
    /\ ctrlPts \in SeqsUpTo(MaxCtrlPts, BezierPoints)
    /\ follow \in [ at : {"bezier"}, initial_z : InitialHeights ]
    /\ pc = "bezier"
    /\ ret = [ op |-> "none" ]
    /\ grid_dimensions = ContinuousGrid
    /\ max_steps = MaxSteps
    /\ num_obstacles = 0
    /\ redspots = {}
    /\ goal = NoCell
    /\ init_loc = NoCell
    /\ current_location = NoCell
    /\ x = -1
    /\ y = -1
    /\ total_steps = 0
    /\ episode_done = FALSE
    /\ undone_run = 0
    /\ path_free = TRUE
    /\ use_coppeliasim = TRUE
    /\ simulation_mode = FALSE
    /\ gen = NoGen
    /\ random_seed = ResetSeed
    /\ stream42 = NoStream
    /\ samples = NoSamples
    /\ calls = 0

BezierFrame ==
    UNCHANGED <<pc, grid_dimensions, max_steps, num_obstacles, redspots, goal, init_loc,
                x, y, current_location, total_steps, episode_done, undone_run,
                path_free, coppelia, calls>>

EvaluateBezier ==
    /\ pc = "bezier"
    /\ ret.op = "none"
    /\ \E k \in 0 .. Subdivisions :
          ret' = [ op |-> "bezier_recursive",
                   k |-> k,
                   value |-> bezier_recursive(ctrlPts, k, Subdivisions,
                                              follow.initial_z) ]
    /\ BezierFrame

MeasureBezier ==
    /\ pc = "bezier"
    /\ ret.op = "none"
    /\ ret' = [ op |-> "calculate_total_length",
                value |-> calculate_total_length(ctrlPts, Subdivisions,
                                                 follow.initial_z) ]
    /\ BezierFrame

NextBezier == EvaluateBezier \/ MeasureBezier

SpecBezier == InitBezier /\ [][NextBezier]_vars

----------------------------------------------------------------------------
(* follow_path on its own.  Lengths are thousandths of a scene unit, the   *)
(* simulation clock counts steps of 50 ms, the wall clock hundredths of a  *)
(* second.                                                                 *)

\* line 72: 0.08 scene units per second, in thousandths per 50 ms
Velocity == 4

\* line 370: 0.001
Tolerance == 1

\* line 351: max_time = 3.0 seconds
max_time == 300

\* line 365: time.sleep(0.01)
StallSleep == 1

\* line 73: self.path_follow_delay = 0.05
path_follow_delay == 5

\* line 356: time.time() - start_time > max_time
Expired(elapsed) == elapsed > max_time

\* line 362 with the comparison strict
Stalled_strict(deltaT) == deltaT < 0

\* line 362: deltaT <= 0.0
Stalled(deltaT) == deltaT <= 0

\* what sim.getSimulationTime() may return: the clock may stand still, run on, or
\* fall back
ClockReadings == 0 .. MaxSimTime

\* the readings of the clock that may follow the reading prev
NextReadings(prev) == { t \in ClockReadings : t - prev \in -MaxDelta .. MaxDelta }

InitFollow ==
    /\ follow = [ at |-> "called" ]
    /\ simulation_mode \in BOOLEAN
    /\ pc = "follow_path"
    /\ ctrlPts = << >>
    /\ ret = [ op |-> "none" ]
    /\ grid_dimensions = ContinuousGrid
    /\ max_steps = MaxSteps
    /\ num_obstacles = 0
    /\ redspots = {}
    /\ goal = NoCell
    /\ init_loc = NoCell
    /\ current_location = NoCell
    /\ x = -1
    /\ y = -1
    /\ total_steps = 0
    /\ episode_done = FALSE
    /\ undone_run = 0
    /\ path_free = TRUE
    /\ use_coppeliasim = TRUE
    /\ gen = NoGen
    /\ random_seed = ResetSeed
    /\ stream42 = NoStream
    /\ samples = NoSamples
    /\ calls = 0

FollowFrame ==
    UNCHANGED <<pc, grid_dimensions, max_steps, num_obstacles, redspots, goal, init_loc,
                x, y, current_location, total_steps, ret, episode_done, undone_run,
                path_free, use_coppeliasim, simulation_mode, ctrlPts, gen, random_seed,
                stream42, samples, calls>>

\* lines 339-340: nothing to follow in grid-only mode
FollowSkip ==
    /\ follow.at = "called"
    /\ FollowPathSkips
    /\ follow' = [ at |-> "returned", exit |-> "skipped" ]
    /\ FollowFrame

\* lines 343-352: the curve is measured and the clocks are read; pushes counts the
\* poses given to sim.setObjectPosition (line 385)
FollowStart ==
    /\ follow.at = "called"
    /\ ~ FollowPathSkips
    /\ \E total_length \in 0 .. MaxLength, t \in ClockReadings :
          follow' = [ at |-> "loop",
                      total_length |-> total_length,
                      posAlongPath |-> 0,
                      previousSimulationTime |-> t,
                      deltaT |-> 0,
                      elapsed |-> 0,
                      pushes |-> 0 ]
    /\ FollowFrame

\* line 354: the loop ends because its condition is false
FollowReturn ==
    /\ follow.at = "loop"
    /\ ~ (follow.posAlongPath < follow.total_length)
    /\ follow' = [ follow EXCEPT !.at = "returned" ] @@ [ exit |-> "length" ]
    /\ FollowFrame

\* lines 356-357: the watchdog ends the loop
FollowWatchdog ==
    /\ follow.at = "loop"
    /\ follow.posAlongPath < follow.total_length
    /\ Expired(follow.elapsed)
    /\ follow' = [ follow EXCEPT !.at = "returned" ] @@ [ exit |-> "watchdog" ]
    /\ FollowFrame

\* lines 359-366: the clock has not moved forward; the loop yields and tries again.
\* lag is the time the turn takes beyond its sleep
FollowStall(t, lag) ==
    /\ follow.at = "loop"
    /\ follow.posAlongPath < follow.total_length
    /\ ~ Expired(follow.elapsed)
    /\ Stalled(t - follow.previousSimulationTime)
    /\ follow' = [ follow EXCEPT !.deltaT = t - follow.previousSimulationTime,
                                 !.previousSimulationTime = t,
                                 !.elapsed = @ + StallSleep + lag ]
    /\ FollowFrame

\* lines 359-360 and 368-392: the clock has moved forward; the robot is moved along
\* the curve, to its end when that is within reach
FollowAdvance(t, lag) ==
    /\ follow.at = "loop"
    /\ follow.posAlongPath < follow.total_length
    /\ ~ Expired(follow.elapsed)
    /\ ~ Stalled(t - follow.previousSimulationTime)
    /\ LET deltaT == t - follow.previousSimulationTime
           posAlongPath == follow.posAlongPath + Velocity * deltaT
       IN IF posAlongPath >= follow.total_length - Tolerance
            THEN follow' = [ follow EXCEPT !.at = "returned",
                                          !.deltaT = deltaT,
                                          !.posAlongPath = follow.total_length ]
                           @@ [ exit |-> "length" ]
            ELSE follow' = [ follow EXCEPT !.deltaT = deltaT,
                                          !.posAlongPath = posAlongPath,
                                          !.previousSimulationTime = t,
                                          !.pushes = @ + 1,
                                          !.elapsed = @ + path_follow_delay + lag ]
    /\ FollowFrame

\* a call of the simulator inside the loop raises (lines 359, 364, 385-390)
FollowRaise ==
    /\ follow.at = "loop"
    /\ follow.posAlongPath < follow.total_length
    /\ ~ Expired(follow.elapsed)
    /\ follow' = [ follow EXCEPT !.at = "raised" ]
    /\ FollowFrame

FollowTurn ==
    /\ follow.at = "loop"
    /\ \E t \in NextReadings(follow.previousSimulationTime), lag \in 0 .. MaxLag :
          FollowStall(t, lag) \/ FollowAdvance(t, lag)

NextFollow ==
    \/ FollowSkip \/ FollowStart \/ FollowReturn \/ FollowWatchdog
    \/ FollowTurn \/ FollowRaise

SpecFollow == InitFollow /\ [][NextFollow]_vars

\* the thread that runs follow_path keeps running: a call that is pending returns
\* or raises, and a turn of the loop that can be taken is taken
SpecFollowFair == SpecFollow /\ WF_vars(NextFollow)

----------------------------------------------------------------------------
(* initialize_grid_environment under a fair random source.  random changes *)
(* its state with every number it yields; gen.draws keeps the parity of    *)
(* the iterations made, so that an iteration that rejects its draw is a    *)
(* step of its own.                                                        *)

\* every cell a grid of the model can have
GenCells == Cells(<<GenWidth, GenHeight>>)

InitGrid ==
    /\ grid_dimensions \in (1 .. GenWidth) \X (1 .. GenHeight)
    /\ num_obstacles \in 1 .. GenMaxObstacles
    /\ gen = [ draws |-> 0 ]
    /\ max_steps = MaxSteps
    /\ redspots = {}
    /\ pc = "obstacles"
    /\ goal = NoCell
    /\ init_loc = NoCell
    /\ x = -1
    /\ y = -1
    /\ current_location = NoCell
    /\ total_steps = 0
    /\ ret = [ op |-> "none" ]
    /\ episode_done = FALSE
    /\ undone_run = 0
    /\ path_free = TRUE
    /\ use_coppeliasim = FALSE
    /\ simulation_mode = TRUE
    /\ ctrlPts = << >>
    /\ random_seed = ResetSeed
    /\ stream42 = NoStream
    /\ samples = NoSamples
    /\ follow = NoFollow
    /\ calls = 0

\* lines 163-164, 170-171, 178-179: random has yielded the two numbers of a cell
Drawn ==
    /\ gen' = [ draws |-> 1 - gen.draws ]
    /\ UNCHANGED <<use_coppeliasim, simulation_mode, ctrlPts, random_seed, stream42,
                   samples, follow>>

DrawObstacle(cell) == GenObstacleDraw(cell) /\ Drawn

DrawGoal(cell) == GenGoalDraw(cell) /\ Drawn

DrawAgent(cell) == GenAgentDraw(cell) /\ Drawn

NextGrid ==
    \E cell \in GenCells : DrawObstacle(cell) \/ DrawGoal(cell) \/ DrawAgent(cell)

SpecGrid == InitGrid /\ [][NextGrid]_vars

\* the loops keep running, and the random source is fair: a cell a loop could draw
\* again and again is drawn by it again and again
SpecGridFair ==
    /\ SpecGrid
    /\ \A cell \in GenCells :
          /\ SF_vars(DrawObstacle(cell))
          /\ SF_vars(DrawGoal(cell))
          /\ SF_vars(DrawAgent(cell))

----------------------------------------------------------------------------
(* move_to_grid and grid_to_coordinates on binary floating-point numbers.  *)
(* A length is an integer counting spacings of the floating-point numbers  *)
(* between 2 and 4, where the scene boundary 2.5 lies: 2^-51 in the        *)
(* source's 64-bit format, 1/16 in the format of the model, which keeps 6  *)
(* bits.  Every multiple of the spacing below 4 is a number of the format; *)
(* from 4 to 8 only every second one is, and a sum is rounded to the       *)
(* nearest of them, a tie to the one whose last bit is 0.                  *)

\* 0.125, 2.5, 5 and 4 in spacings
BinaryPitch == 2
BinaryHalf == 40
BinarySize == 80
BinaryFour == 64

\* the floating-point number a sum s below 8 is rounded to
Rounded(s) ==
    IF s < BinaryFour \/ s % 2 = 0 THEN s
    ELSE IF (s + 1) % 4 = 0 THEN s + 1 ELSE s - 1

\* lines 256-270 in floating point; None is NoCell
move_to_grid_binary(p) ==
    LET sx == Rounded(p[1] + BinaryHalf)
        sy == Rounded(p[2] + BinaryHalf)
    IN IF sx > BinarySize \/ sx < 0 \/ sy > BinarySize \/ sy < 0
         THEN NoCell
         ELSE LET x_grid == RoundDiv(sx, BinaryPitch)
                  y_grid == RoundDiv(sy, BinaryPitch)
              IN IF x_grid > MaxGridIndex \/ x_grid < 0
                      \/ y_grid > MaxGridIndex \/ y_grid < 0
                   THEN NoCell
                   ELSE <<x_grid, y_grid>>

\* None of grid_to_coordinates
NoBinaryPosition == <<-BinarySize, -BinarySize>>

\* lines 272-283 in floating point, without the constant height: the products and
\* the differences are numbers of the format and so not rounded
grid_to_coordinates_binary(cell) ==
    IF cell[1] > MaxGridIndex \/ cell[1] < 0 \/ cell[2] > MaxGridIndex \/ cell[2] < 0
      THEN NoBinaryPosition
      ELSE <<cell[1] * BinaryPitch - BinaryHalf, cell[2] * BinaryPitch - BinaryHalf>>

\* the positions and the cells the two functions are called with
BinaryPositions ==
    LET range == -(BinaryHalf + BeyondScene) .. (BinaryHalf + BeyondScene)
    IN range \X range

GridCells ==
    LET range == -BeyondGrid .. (MaxGridIndex + BeyondGrid)
    IN range \X range

\* gen holds the argument of the call that is pending
InitConvert ==
    /\ gen \in [ call : {"move_to_grid"}, p : BinaryPositions ]
              \cup [ call : {"grid_to_coordinates"}, cell : GridCells ]
    /\ pc = "convert"
    /\ ret = [ op |-> "none" ]
    /\ grid_dimensions = ContinuousGrid
    /\ max_steps = MaxSteps
    /\ num_obstacles = 0
    /\ redspots = {}
    /\ goal = NoCell
    /\ init_loc = NoCell
    /\ current_location = NoCell
    /\ x = -1
    /\ y = -1
    /\ total_steps = 0
    /\ episode_done = FALSE
    /\ undone_run = 0
    /\ path_free = TRUE
    /\ use_coppeliasim = TRUE
    /\ simulation_mode = FALSE
    /\ ctrlPts = << >>
    /\ random_seed = ResetSeed
    /\ stream42 = NoStream
    /\ samples = NoSamples
    /\ follow = NoFollow
    /\ calls = 0

ConvertFrame ==
    UNCHANGED <<grid_dimensions, max_steps, num_obstacles, redspots, goal, init_loc,
                x, y, current_location, total_steps, episode_done, undone_run,
                path_free, use_coppeliasim, simulation_mode, ctrlPts, gen, random_seed,
                stream42, samples, follow, calls>>

MoveToGrid ==
    /\ pc = "convert"
    /\ gen.call = "move_to_grid"
    /\ ret' = [ op |-> "move_to_grid", value |-> move_to_grid_binary(gen.p) ]
    /\ pc' = "converted"
    /\ ConvertFrame

\* grid_to_coordinates, and move_to_grid called with what it returned
GridToCoordinates ==
    /\ pc = "convert"
    /\ gen.call = "grid_to_coordinates"
    /\ LET coords == grid_to_coordinates_binary(gen.cell)
       IN ret' = [ op |-> "grid_to_coordinates",
                   value |-> coords,
                   back |-> IF coords = NoBinaryPosition
                              THEN NoCell ELSE move_to_grid_binary(coords) ]
    /\ pc' = "converted"
    /\ ConvertFrame

NextConvert == MoveToGrid \/ GridToCoordinates

SpecConvert == InitConvert /\ [][NextConvert]_vars

----------------------------------------------------------------------------
(* Properties                                                              *)

Stepped == pc = "ready" /\ ret.op = "step"

\* the step just taken ended neither on the goal nor on an obstacle
ShapedStep == Stepped /\ current_location # goal /\ current_location \notin redspots

\* the action asks to leave the grid from cell p
LeavesGrid(action, p, dims) ==
    \/ action = UP /\ p[2] - 1 < 0
    \/ action = DOWN /\ p[2] + 1 > dims[2] - 1
    \/ action = LEFT /\ p[1] - 1 < 0
    \/ action = RIGHT /\ p[1] + 1 > dims[1] - 1

\* the shaping reward of the step just taken without its obstacle term, hundredths
RewardLessProximity == ret.reward + (ret.info.obstacle_proximity * 3) \div 10

\* the distance term the spec gives the step just taken, hundredths
SpecDistanceTerm ==
    LET before == Manhattan(ret.old_position, goal)
        after == Manhattan(current_location, goal)
    IN IF after < before THEN 10 ELSE IF after > before THEN -10 ELSE -5

\* C1: every layout produced by initialize_grid_environment has the goal and the
\* agent start off the obstacle cells, the agent start different from the goal, and
\* every obstacle, the goal and the agent start inside [0,width) x [0,height).
C1_GridLayoutValid ==
    pc = "ready" =>
        /\ goal \notin redspots
        /\ init_loc \notin redspots
        /\ init_loc # goal
        /\ \A c \in redspots \cup {goal, init_loc} :
              /\ 0 <= c[1] /\ c[1] < grid_dimensions[1]
              /\ 0 <= c[2] /\ c[2] < grid_dimensions[2]

C1_Witness ==
    /\ pc = "ready"
    /\ ret.op = "none"
    /\ Cardinality(redspots) = num_obstacles
    /\ num_obstacles >= 1
    /\ current_location = init_loc

\* C2: a step returns reward +1.0 with done = true exactly when the position after
\* the move is the goal.
C2_GoalRewardIffAtGoal ==
    Stepped => ((ret.reward = 100 /\ ret.done) <=> current_location = goal)

C2_Witness ==
    Stepped /\ current_location = goal /\ ret.old_position # goal /\ ret.reward = 100

C4_TimeLimitForcesDone ==
    /\ (Stepped /\ total_steps >= max_steps) => ret.done
    /\ undone_run <= max_steps - 1

C4_Witness ==
    /\ ShapedStep
    /\ total_steps = max_steps
    /\ ret.done
    /\ undone_run = 0

\* C5: in a step that ends neither on the goal nor on an obstacle, the reward holds
\* the -0.2 wall penalty exactly when the action was blocked by the grid boundary
\* (a move action that left the position unchanged).
C5_WallPenaltyIffBlocked ==
    ShapedStep =>
        ( (RewardLessProximity = SpecDistanceTerm - 20)
          <=> (ret.action \in {UP, DOWN, LEFT, RIGHT}
               /\ current_location = ret.old_position) )

\* C6: the agent stays inside the grid under any sequence of steps and resets; a
\* move that would leave the grid leaves the position unchanged, and when that cell
\* is neither goal nor obstacle the reward holds the -0.2 wall penalty.
C6_ClampedInsideGrid ==
    pc = "ready" =>
        /\ 0 <= current_location[1] /\ current_location[1] < grid_dimensions[1]
        /\ 0 <= current_location[2] /\ current_location[2] < grid_dimensions[2]
        /\ x = current_location[1] /\ y = current_location[2]
        /\ (ret.op = "step" /\ LeavesGrid(ret.action, ret.old_position, grid_dimensions))
              => /\ current_location = ret.old_position
                 /\ ShapedStep => RewardLessProximity = SpecDistanceTerm - 20

C6_Witness ==
    /\ ShapedStep
    /\ ret.old_position = <<0, 0>>
    /\ ret.action = LEFT
    /\ current_location = <<0, 0>>
    /\ RewardLessProximity = -25

\* C7: a step called after the episode has terminated fails with an explicit error:
\* it returns no ordinary result, moves nothing and does not count.
C7_StepAfterDoneRaises ==
    [][ (episode_done /\ StepAny) =>
           /\ ret'.op = "error"
           /\ UNCHANGED <<x, y, current_location, total_steps>> ]_vars

\* C8: a step called with an action outside {UP, DOWN, LEFT, RIGHT, STAY} fails with
\* an explicit error: it returns no ordinary result, moves nothing and does not count.
C8_InvalidActionRaises ==
    [][ \A action \in ActionInputs \ Actions :
           Step(action) => /\ ret'.op = "error"
                           /\ UNCHANGED <<x, y, current_location, total_steps>> ]_vars

\* C9: in a step that ends neither on the goal nor on an obstacle, the distance term
\* of the reward is +0.1 exactly when the Manhattan distance to the goal fell, -0.1
\* exactly when it rose and -0.05 exactly when it stayed, and the reward is that term
\* plus -0.3 x obstacle_proximity plus the wall penalty.
C9_DistanceShaping ==
    ShapedStep =>
        LET before == Manhattan(ret.old_position, goal)
            after == Manhattan(current_location, goal)
            at_wall == \/ ret.action = UP /\ current_location[2] = 0
                       \/ ret.action = DOWN /\ current_location[2] = grid_dimensions[2] - 1
                       \/ ret.action = LEFT /\ current_location[1] = 0
                       \/ ret.action = RIGHT /\ current_location[1] = grid_dimensions[1] - 1
            term == RewardLessProximity + (IF at_wall THEN 20 ELSE 0)
        IN /\ (term = 10) <=> (after < before)
           /\ (term = -10) <=> (after > before)
           /\ (term = -5) <=> (after = before)

C9_Witness ==
    /\ ShapedStep
    /\ Manhattan(current_location, goal) > Manhattan(ret.old_position, goal)
    /\ RewardLessProximity = -10

\* C10: obstacle proximity is max(0, 1 - 0.2 d) for d the Manhattan distance from the
\* agent to the nearest obstacle within Manhattan distance 8, and 0.0 when there is
\* none; distance 1 gives 0.8 and the value lies in [0, 1].
C10_ProximityFormula ==
    ret.op = "proximity" =>
        LET near == { Manhattan(c, current_location) :
                        c \in { o \in redspots : Manhattan(o, current_location) <= 8 } }
        IN /\ near = {} => ret.value = 0
           /\ near # {} =>
                 \E d \in near :
                    /\ \A e \in near : d <= e
                    /\ ret.value = (IF 100 - 20 * d > 0 THEN 100 - 20 * d ELSE 0)
                    /\ d = 1 => ret.value = 80
           /\ 0 <= ret.value /\ ret.value <= 100

C10_Witness ==
    /\ ret.op = "proximity"
    /\ ret.value = 80
    /\ \E o \in redspots : Manhattan(o, current_location) = 1
    /\ current_location \notin redspots

\* C11: the observation returned by every reset and every step, at grid-boundary
\* positions and in the error fallback too, has length (2*2+1)^2 + 4 = 29.
C11_ObservationLength ==
    ret.op \in {"reset", "step", "step_failed"} =>
        LET obs == ReturnedObservation
        IN /\ Len(obs) = 29
           /\ Len(obs) = (2 * VisionRadius + 1) * (2 * VisionRadius + 1) + 4

C11_Witness ==
    /\ ret.op = "step"
    /\ current_location = <<0, 0>>
    /\ ret.old_position # <<0, 0>>
    /\ Len(ReturnedObservation) = 29

\* reset has returned
ResetDone == pc = "ready" /\ ret.op = "reset"

\* the observation the last call returned encodes the agent on its start
ReturnsStartObservation ==
    LET obs == ReturnedObservation
    IN obs = get_observation(init_loc, grid_dimensions, redspots, goal)

\* C12 as stated: from any state reset puts the agent back on its start with the
\* step count 0, leaves the control-point sequence empty, and returns the
\* observation of the start.
C12_ResetClearsControlPoints ==
    ResetDone =>
        /\ current_location = init_loc
        /\ total_steps = 0
        /\ ctrlPts = << >>
        /\ ReturnsStartObservation

\* C12, amended: from any state reset puts the agent back on its start with the
\* step count 0 and returns the observation of the start; while the simulator is
\* still driven after the call, the control-point sequence is not empty but holds
\* exactly one point, the position the simulator reports for the robot.
C12_ResetRestartsControlPoints ==
    ResetDone =>
        /\ current_location = init_loc
        /\ <<x, y>> = init_loc
        /\ total_steps = 0
        /\ ReturnsStartObservation
        /\ Active => Len(ctrlPts) = 1 /\ ctrlPts[1] \in SimPositions

\* a reset that found two control points and left one, the simulator still driven
C12_Witness ==
    /\ ResetDone
    /\ Active
    /\ ret.old_ctrlPts = 2
    /\ Len(ctrlPts) = 1
    /\ current_location = init_loc
    /\ total_steps = 0

\* C13: a reset that follows a reset returns the observation the first one returned
\* and leaves the step count 0.  While the layout is generated again the position
\* and the goal are still those of the first reset, and they are entries 26-29 of
\* its observation.
C13_ResetTwiceSameObservation ==
    [][ (ret.op = "reset" /\ ret'.op = "reset" /\ pc' = "ready"
           /\ (pc = "ready" \/ gen.caller = "reset"))
        => /\ total_steps' = 0
           /\ <<x', y', goal'>> = <<x, y, goal>>
           /\ (pc = "ready" => redspots' = redspots) ]_vars

\* the simulator block of the step just taken raised
ActuationFailed == Stepped /\ ret.actuation \in {"state_failed", "path_failed"}

\* the step just taken returned what step returns in grid-only mode
DiscreteResult ==
    LET old == ret.old_position
        new == <<MoveX(ret.action, old[1], grid_dimensions),
                 MoveY(ret.action, old[2], grid_dimensions)>>
        scored == Score(ret.action, old, new, goal, redspots, grid_dimensions,
                        calculate_obstacle_proximity(new, grid_dimensions, redspots))
    IN /\ current_location = new
       /\ <<x, y>> = new
       /\ total_steps = ret.old_steps + 1
       /\ ret.obs = "get_observation"
       /\ ret.reward = scored[1]
       /\ ret.done = (scored[2] \/ TimeLimitReached(ret.old_steps + 1, max_steps))

\* C14: a step in which a simulator call failed returns all the same, with the
\* position, reward and done of grid-only mode, and leaves the environment in
\* grid-only mode (simulation_mode = True).
C14_FailureFlipsToGridOnly ==
    ActuationFailed => simulation_mode /\ DiscreteResult

\* C15: whether the simulator block of a step was skipped (grid-only mode), ran to
\* the end or failed part-way, the position, observation, reward and done of the
\* step are those of grid-only mode, a function of the layout, the previous
\* position, the previous step count and the action alone.
C15_ActuationLeavesStepUnchanged ==
    Stepped => DiscreteResult

\* a move made although the simulator block raised at its first call
C15_Witness ==
    /\ Stepped
    /\ ret.actuation = "state_failed"
    /\ current_location # ret.old_position
    /\ ~ ret.done
    /\ ret.reward = CloserReward

\* C16: a step that fails internally returns, instead of raising, done = true, an
\* all-zero observation of length 29, the reward -0.1 and an info mapping with the
\* four keys.
C16_FallbackResult ==
    ret.op = "step_failed" =>
        /\ ret.done = TRUE
        /\ LET obs == ReturnedObservation
           IN Len(obs) = 29 /\ \A i \in 1 .. Len(obs) : obs[i] = 0
        /\ ret.reward = -10
        /\ DOMAIN ret.info = {"manhattan_distance", "action_name",
                              "manhattan_improvement", "obstacle_proximity"}

C16_Witness ==
    /\ ret.op = "step_failed"
    /\ ~ ret.after_done
    /\ total_steps = 1

\* C17: when every step since the reset was a move that started off the goal and
\* ended off the obstacles, and the step limit is not yet exceeded, then the step
\* that arrives at the goal returns reward 1.0 and done = true with no earlier step
\* having returned done = true, and every step that stops short of the goal before
\* the limit returns done = false and a reward other than -20.0.
C17_FreePathReachesGoal ==
    (Stepped /\ path_free /\ total_steps <= max_steps) =>
        /\ ret.reward # -2000
        /\ current_location = goal =>
              /\ ret.reward = 100
              /\ ret.done = TRUE
              /\ ~ ret.after_done
        /\ (current_location # goal /\ total_steps < max_steps) =>
              /\ ret.done = FALSE
              /\ undone_run = total_steps

C17_Witness ==
    /\ Stepped
    /\ path_free
    /\ current_location = <<4, 4>>
    /\ total_steps = 8
    /\ ret.action = DOWN
    /\ ret.old_position = <<4, 3>>
    /\ ret.reward = 100
    /\ ret.done

\* C18: the first 25 entries of the observation are the 5x5 window centred on the
\* agent, rows of dy outermost and dx innermost, each the label (1 obstacle, 2 goal,
\* 0 otherwise) of the cell (agentX+dx, agentY+dy) clamped to the grid; the last
\* four entries are agentX, agentY, goalX, goalY.
C18_ObservationLayout ==
    ret.op = "observation" =>
        LET obs == ret.value
        IN /\ \A dy \in -2 .. 2 : \A dx \in -2 .. 2 :
                 LET cx == Max(0, Min(grid_dimensions[1] - 1, x + dx))
                     cy == Max(0, Min(grid_dimensions[2] - 1, y + dy))
                     entry == obs[(dy + 2) * 5 + (dx + 2) + 1]
                 IN entry = (IF <<cx, cy>> \in redspots THEN 1
                             ELSE IF <<cx, cy>> = goal THEN 2 ELSE 0)
           /\ SubSeq(obs, 26, 29) = <<x, y, goal[1], goal[2]>>

C18_Witness ==
    /\ ret.op = "observation"
    /\ current_location = <<2, 0>>
    /\ redspots = { <<0, 1>> }
    /\ goal = <<4, 0>>
    /\ LET obs == ret.value
       IN obs[1] = 0 /\ obs[11] = 0 /\ obs[15] = 2 /\ obs[16] = 1 /\ obs[18] = 0

\* the cell lies in [0,width) x [0,height)
InGrid(cell) ==
    /\ 0 <= cell[1] /\ cell[1] < grid_dimensions[1]
    /\ 0 <= cell[2] /\ cell[2] < grid_dimensions[2]

\* C19: every layout that initialize_environment and initialize_coppelia_environment
\* produce, a default position used or not, has the goal cell and the agent start
\* cell off the obstacle cells, the agent start cell different from the goal cell,
\* and every cell inside [0,width) x [0,height).
C19_ContinuousLayoutValid ==
    pc = "ready" =>
        /\ goal \notin redspots
        /\ init_loc \notin redspots
        /\ init_loc # goal
        /\ InGrid(goal)
        /\ InGrid(init_loc)
        /\ \A cell \in redspots : InGrid(cell)

\* C20 as stated: after every step the agent's own cell is not an obstacle cell, so
\* the proximity of a step is never computed at distance 0.
C20_ProximityNeverOnObstacle ==
    Stepped => current_location \notin redspots

\* C20 as the code has it: the proximity is computed in every step, before the
\* reward branches; it is computed at distance 0 (value 1.0) exactly when the step
\* ended on an obstacle cell, and it enters the reward only of steps that ended off
\* the obstacles, where it is at most 0.8.
C20_ProximityInRewardOffObstacles ==
    Stepped =>
        /\ ret.info.obstacle_proximity = 100 <=> current_location \in redspots
        /\ ret.reward \notin {100, -2000} =>
              /\ current_location \notin redspots
              /\ ret.info.obstacle_proximity <= 80

C20_Witness ==
    /\ Stepped
    /\ current_location \in redspots
    /\ ret.old_position \notin redspots
    /\ ret.info.obstacle_proximity = 100
    /\ ret.reward = -2000

\* the four keys of info
InfoKeys ==
    {"manhattan_distance", "action_name", "manhattan_improvement", "obstacle_proximity"}

\* the distances of the step just taken, written out
DistanceAfter == Abs(current_location[1] - goal[1]) + Abs(current_location[2] - goal[2])

DistanceBefore == Abs(ret.old_position[1] - goal[1]) + Abs(ret.old_position[2] - goal[2])

\* the name the source gives each of the five actions
NameTable ==
    [ a \in Actions |->
        IF a = 0 THEN "UP" ELSE IF a = 1 THEN "DOWN" ELSE IF a = 2 THEN "LEFT"
        ELSE IF a = 3 THEN "RIGHT" ELSE "STAY" ]

ValidAmongObstacles(p, size) ==
    is_position_valid(p, size, gen.obstacle_positions, ObstacleSize)

\* C22: an object for which the generator finds no valid position within its
\* attempt budget is given a fixed default position, and the generation goes on:
\* every obstacle whose loop ends has a position, the goal has a valid position or
\* its default, and the agent starts on the cell of a valid position or of its
\* default.
C22_SpentBudgetUsesDefault ==
    [][ /\ (pc = "c_obstacles" /\ gen'.i = gen.i + 1) =>
              Cardinality(gen'.obstacle_positions)
                  = Cardinality(gen.obstacle_positions) + 1
        /\ (pc = "c_goal" /\ pc' = "c_agent") =>
              \/ gen'.goal_position = DefaultGoalPosition
              \/ ValidAmongObstacles(gen'.goal_position, GoalSize)
        /\ (pc = "c_agent" /\ pc' = "ready") =>
              \/ init_loc' = move_to_grid(DefaultRobotPosition)
              \/ \E p \in samples.agent :
                    ValidAmongObstacles(p, RobotSize) /\ init_loc' = move_to_grid(p)
      ]_vars

\* C23: bezier_recursive returns the x and y of the first control point at t = 0
\* and of the last control point at t = 1, always with z = initial_z, and
\* calculate_total_length gives the two points (0,0) and (1,0) the length 1.0.
C23_BezierEndpointsAndLength ==
    /\ ret.op = "bezier_recursive" =>
          LET p == ret.value
              first == ctrlPts[1]
              last == ctrlPts[Len(ctrlPts)]
          IN /\ p.z = follow.initial_z
             /\ p.over > 0
             /\ ret.k = 0 => p.x = first[1] * p.over /\ p.y = first[2] * p.over
             /\ ret.k = Subdivisions =>
                    p.x = last[1] * p.over /\ p.y = last[2] * p.over
    /\ (ret.op = "calculate_total_length" /\ ctrlPts = << <<0, 0>>, <<1, 0>> >>) =>
          ret.value.length = 1 * ret.value.over

\* the curve of three control points evaluated at t = 1, the last point not the first
C23_Witness ==
    /\ ret.op = "bezier_recursive"
    /\ ret.k = Subdivisions
    /\ ctrlPts = << <<0, 0>>, <<1, 1>>, <<1, 0>> >>
    /\ ret.value.x = ret.value.over
    /\ ret.value.y = 0
    /\ ret.value.z = 12

\* the call just made was a step whose simulator block got as far as the path
PathStep ==
    /\ ret'.op = "step"
    /\ total_steps' = total_steps + 1
    /\ ret'.actuation \in {"traversed", "path_failed"}

\* the control point a step to the cell adds
NewControlPoint(cell, action) ==
    LET new_coords == grid_to_coordinates(cell)
    IN <<new_coords[1] + OffsetX(action), new_coords[2] + OffsetY(action)>>

\* C24: while the simulator is driven the control points are never empty and never
\* more than two, and a step, its path traversed or not, leaves exactly the last
\* point it found followed by the one point it appended.
C24_ControlPointsPruned ==
    [][ /\ (pc' = "ready" /\ Active') => Len(ctrlPts') \in 1 .. 2
        /\ PathStep =>
              ctrlPts' = << ctrlPts[Len(ctrlPts)],
                            NewControlPoint(current_location', ret'.action) >>
      ]_vars

\* the second step of an episode traversed: the pose the simulator first reported
\* is no longer among the two points
C24_Witness ==
    /\ Stepped
    /\ Active
    /\ ret.actuation = "traversed"
    /\ ret.old_steps = 1
    /\ Len(ctrlPts) = 2
    /\ ctrlPts[1] \notin SimPositions
    /\ ctrlPts[2] = NewControlPoint(current_location, ret.action)

\* C25: the curve follow_path traverses has at most two control points, in every
\* step of every episode.
C25_TraversedCurveDegreeOne ==
    [][ (ret'.op = "step" /\ total_steps' = total_steps + 1
           /\ ret'.actuation = "traversed")
        => Len(ExtendedPath(ctrlPts, current_location', ret'.action)) <= 2 ]_vars

\* C27: when reset generates the layout again, the generator is seeded with the
\* seed the constructor was given.
C27_RestartUsesConstructionSeed ==
    [][ (pc = "ready" /\ pc' = "c_obstacles" /\ gen'.caller = "reset")
        => gen'.seed = random_seed ]_vars

\* the boxes around a and b have no interior point in common
InteriorsApart(a, a_size, b, b_size) ==
    \/ 2 * Abs(a[1] - b[1]) >= a_size + b_size
    \/ 2 * Abs(a[2] - b[2]) >= a_size + b_size

\* the box around a lies within [-2.5, 2.5] x [-2.5, 2.5]
InsideScene(a, a_size) ==
    /\ 2 * Abs(a[1]) + a_size <= 2 * SceneHalf
    /\ 2 * Abs(a[2]) + a_size <= 2 * SceneHalf

\* the box around a overlaps no obstacle placed so far, after the step
ClearOfObstacles(a, a_size) ==
    \A e \in gen'.obstacle_positions : InteriorsApart(a, a_size, e, ObstacleSize)

\* C28: in continuous generation no two placed obstacle boxes overlap, every
\* placed box lies within the scene boundary, and a goal or an agent placed
\* without fallback overlaps no obstacle box.
C28_FootprintsDisjoint ==
    [][ /\ \A a \in gen'.obstacle_positions :
              /\ InsideScene(a, ObstacleSize)
              /\ \A b \in gen'.obstacle_positions \ {a} :
                     InteriorsApart(a, ObstacleSize, b, ObstacleSize)
        /\ (pc = "c_goal" /\ pc' = "c_agent") =>
              /\ InsideScene(gen'.goal_position, GoalSize)
              /\ \/ gen'.goal_position = DefaultGoalPosition
                 \/ ClearOfObstacles(gen'.goal_position, GoalSize)
        /\ (pc = "c_agent" /\ pc' = "ready") =>
              \/ init_loc' = move_to_grid(DefaultRobotPosition)
              \/ \E p \in samples.agent :
                    /\ init_loc' = move_to_grid(p)
                    /\ InsideScene(p, RobotSize)
                    /\ \A e \in gen.obstacle_positions :
                           InteriorsApart(p, RobotSize, e, ObstacleSize)
      ]_vars

\* two obstacles placed whose boxes exactly touch, and the goal placed by a draw
C28_Witness ==
    /\ pc = "c_agent"
    /\ gen.obstacle_positions = { <<1000, 0>>, <<-2000, 0>> }
    /\ gen.goal_position = <<10000, 10000>>

\* the world layout: the obstacle cells, the goal and the agent start
Layout == <<redspots, goal, init_loc>>

\* a call of step has returned, whether it completed or failed internally
StepReturned == total_steps' = total_steps + 1

\* C29: a step leaves the obstacle set, the goal and the agent start as they
\* were; the layout changes only while a generation, started by the
\* constructor or by reset, is running.
C29_StepKeepsLayout ==
    [][ /\ StepReturned => Layout' = Layout
        /\ Layout' # Layout => (pc # "ready" \/ pc' # "ready") ]_vars

\* a second step in a row has returned after a path was traversed
C29_Witness ==
    /\ pc = "ready"
    /\ total_steps = 2
    /\ ret.op = "step"
    /\ ret.actuation = "traversed"
    /\ current_location # init_loc

\* follow_path has ended, by returning or by raising
FollowEnded == follow.at \in {"returned", "raised"}

\* follow_path has ended after it entered its loop
FollowLeftLoop == follow.at = "raised" \/ (follow.at = "returned" /\ follow.exit # "skipped")

\* a turn of the loop on which the clock had not moved forward
StalledTurn == follow.at = "loop" /\ follow'.at = "loop" /\ follow'.deltaT <= 0

\* C26: follow_path always ends, by reaching the length of the curve or by
\* its watchdog, also when the simulation clock never moves forward; a turn
\* of the loop on which the clock has not moved forward neither advances the
\* distance travelled nor gives a pose to the simulator; and when it ends the
\* distance travelled does not exceed the length of the curve.
C26_FollowPathTerminates ==
    /\ <> FollowEnded
    /\ [] (FollowLeftLoop => follow.posAlongPath <= follow.total_length)
    /\ [][ StalledTurn => /\ follow'.posAlongPath = follow.posAlongPath
                          /\ follow'.pushes = follow.pushes ]_vars

\* the watchdog ended a traversal during which the clock never moved forward
C26_Witness ==
    /\ follow.at = "returned"
    /\ follow.exit = "watchdog"
    /\ follow.total_length > 0
    /\ follow.posAlongPath = 0
    /\ follow.pushes = 0

\* the grid has room for the obstacles asked for, the goal and the agent start
RoomForLayout == grid_dimensions[1] * grid_dimensions[2] >= num_obstacles + 2

\* C30: initialize_grid_environment finishes on every grid of positive width
\* and height under a fair random source, also on a grid with fewer cells
\* than the obstacles asked for plus two.
C30_GridGenerationTerminates == <> (pc = "ready")

\* with room for the layout the three loops do finish
GridGenerationTerminatesWithRoom == RoomForLayout => <> (pc = "ready")

\* without room one of the loops is never left
GridGenerationSpinsWithoutRoom == ~ RoomForLayout => [] (pc # "ready")

\* C31: once the environment is in grid-only mode, no step, reset or close
\* brings it back to continuous actuation: simulation_mode stays True, and
\* the test that guards every simulator block stays false.
C31_GridOnlyModeStays ==
    [][ /\ simulation_mode => simulation_mode'
        /\ ~ (use_coppeliasim /\ ~ simulation_mode)
             => ~ (use_coppeliasim' /\ ~ simulation_mode') ]_vars

\* a path was traversed, then the environment was switched to grid-only mode, and
\* the call made since, a close, has left it there
C31_Witness ==
    /\ pc = "ready"
    /\ simulation_mode
    /\ Len(ctrlPts) = 2
    /\ calls = 3
    /\ ret.op = "close"
    /\ ~ ret.simulator

\* grid-only mode: the simulator is not used, or no longer
GridOnlyMode == ~ use_coppeliasim \/ simulation_mode

\* the call that has returned called the simulator
SimulatorCalled ==
    IF ret.op = "step" THEN ret.actuation # "none" ELSE ret.simulator

\* C32: step, reset and follow_path (and close) called in grid-only mode call
\* the simulator not once and leave self.ctrlPts and self.posAlongPath as they
\* were.
C32_GridOnlyCallsLeavePath ==
    [][ (GridOnlyMode /\ pc = "ready")
          => /\ ~ SimulatorCalled'
             /\ ctrlPts' = ctrlPts
             /\ follow' = follow ]_vars

\* a path was traversed to its end, the environment was then switched to grid-only
\* mode, and follow_path was called on it
C32_Witness ==
    /\ pc = "ready"
    /\ simulation_mode
    /\ Len(ctrlPts) = 2
    /\ follow = Idle("total_length")
    /\ ret.op = "follow_path"

\* the position lies outside the scene boundary [-2.5, 2.5] x [-2.5, 2.5]
OutsideScene(p) ==
    \/ p[1] > BinaryHalf \/ p[1] < -BinaryHalf
    \/ p[2] > BinaryHalf \/ p[2] < -BinaryHalf

\* the cell lies in the grid [0, 40] x [0, 40]
InGridMap(cell) ==
    /\ 0 <= cell[1] /\ cell[1] <= MaxGridIndex
    /\ 0 <= cell[2] /\ cell[2] <= MaxGridIndex

\* grid_to_coordinates is defined on every cell of the grid, and move_to_grid
\* takes what it returns back to the cell
ConvertsBack ==
    (pc = "converted" /\ ret.op = "grid_to_coordinates" /\ InGridMap(gen.cell))
        => ret.value # NoBinaryPosition /\ ret.back = gen.cell

\* move_to_grid returns no cell outside the grid
ConvertsIntoGrid ==
    (pc = "converted" /\ ret.op = "move_to_grid" /\ ret.value # NoCell)
        => InGridMap(ret.value)

\* move_to_grid returns None for a position outside the scene boundary
RejectsOutsideScene ==
    (pc = "converted" /\ ret.op = "move_to_grid" /\ OutsideScene(gen.p))
        => ret.value = NoCell

\* C33: grid_to_coordinates is defined on every cell (gx, gy) with
\* 0 <= gx, gy <= 40 and move_to_grid takes its result back to (gx, gy);
\* move_to_grid returns None for every position outside the scene boundary and
\* never a cell outside [0, 40].
C33_ConvertersAgree == ConvertsBack /\ ConvertsIntoGrid /\ RejectsOutsideScene

\* what holds of the two functions: C33 but for the positions outside the scene
\* that the sum x + 2.5 rounds onto the boundary
ConvertersAgreeButForRounding == ConvertsBack /\ ConvertsIntoGrid

====
